---- MODULE Spec2Model ----
(***************************************************************************)
(* Telugu Badi attendance tracker: the encrypted local store (IndexedDB   *)
(* with a localStorage fallback), the passphrase cipher, the document     *)
(* codec, student identifier generation and the handlers of the           *)
(* IndexedDB-backed App.                                                   *)
(*                                                                         *)
(* Browser built-ins are modelled by their contracts:                      *)
(*  - window.btoa / window.atob: real base64 over bytes 0..255, atob with  *)
(*    the forgiving-base64 decoding of the HTML standard;                  *)
(*  - PBKDF2 and AES-GCM: an ideal authenticated cipher (the derived key   *)
(*    is injective in (passphrase, salt); a ciphertext is accepted only    *)
(*    under the key and iv it was made with, and only unaltered);          *)
(*  - JSON.stringify / JSON.parse: a length-prefixed text codec with a     *)
(*    real parser that rejects malformed text;                             *)
(*  - localStorage.getItem never throws (HTML standard), setItem may throw *)
(*    (quota or other), every IndexedDB request may fail.                  *)
(***************************************************************************)
EXTENDS Integers, Sequences, FiniteSets, TLC

VARIABLES
    idb,         \* IndexedDB 'kv' store, key STORAGE_KEY: <<>> or <<blob>>
    ls,          \* localStorage, key STORAGE_KEY: <<>> or <<blob>>
    db,          \* React state db (the in-memory AppDB)
    passphrase,  \* React state passphrase
    unlocked,    \* React state unlocked
    last,        \* what the last completed call was given, did and reported
    remote,      \* Firestore: the blob of users/{uid}/ttb_sync/main, by uid
    sync,        \* cloud-sync.ts: dbClient, authClient, the Firebase Auth state
    app3,        \* the Firestore-backed App: firestoreReady and its effects
    drawn,       \* how many values crypto.getRandomValues has returned
    pending      \* the databases whose saveDB call has not finished, oldest first

vars ==
    <<idb, ls, db, passphrase, unlocked, last, remote, sync, app3, drawn,
      pending>>
\* the state outside the IndexedDB-backed App and its local store
cloudVars == <<remote, sync, app3, drawn, pending>>

(***************************************************************************)
(* Bounds of the model.                                                    *)
(***************************************************************************)
MaxStudents == 1    \* students in the in-memory database (Spec)
MaxSeqNo == 2       \* highest sequence number Spec lets an enrollment assign

(***************************************************************************)
(* Results of calls: a value or a thrown error.                            *)
(***************************************************************************)
Ok(v) == [kind |-> "ok", value |-> v]
Err(e) == [kind |-> "error", error |-> e]
IsOk(r) == r.kind = "ok"

DecryptionFailed == "Decryption failed: wrong passphrase or corrupted data."
QuotaMessage == "Storage quota exceeded: cannot save data."
InvalidCharacterError == "InvalidCharacterError"
SyntaxError == "SyntaxError"

(***************************************************************************)
(* Generic helpers.                                                        *)
(***************************************************************************)
RECURSIVE SumSeq(_)
SumSeq(s) == IF Len(s) = 0 THEN 0 ELSE s[1] + SumSeq(Tail(s))

RECURSIVE Flatten(_)
Flatten(ss) == IF Len(ss) = 0 THEN <<>> ELSE ss[1] \o Flatten(Tail(ss))

Constant(n, b) == [i \in 1..n |-> b]

(***************************************************************************)
(* Base64 (window.btoa, window.atob).  A base64 character is its sextet    *)
(* value 0..63, PadChar for '=', SpaceChar for an ASCII space and BangChar *)
(* for a character outside the alphabet.                                   *)
(***************************************************************************)
PadChar == 64
SpaceChar == 65
BangChar == 66
Base64Chars == 0..66

RECURSIVE Btoa(_)
Btoa(b) ==
    IF Len(b) = 0 THEN <<>>
    ELSE IF Len(b) = 1 THEN
        <<b[1] \div 4, (b[1] % 4) * 16, PadChar, PadChar>>
    ELSE IF Len(b) = 2 THEN
        <<b[1] \div 4, (b[1] % 4) * 16 + (b[2] \div 16), (b[2] % 16) * 4, PadChar>>
    ELSE <<b[1] \div 4, (b[1] % 4) * 16 + (b[2] \div 16),
           (b[2] % 16) * 4 + (b[3] \div 64), b[3] % 64>>
         \o Btoa(SubSeq(b, 4, Len(b)))

\* forgiving-base64 decode, after whitespace and padding have been removed
RECURSIVE DecodeSextets(_)
DecodeSextets(s) ==
    IF Len(s) < 2 THEN <<>>
    ELSE IF Len(s) = 2 THEN <<s[1] * 4 + (s[2] \div 16)>>
    ELSE IF Len(s) = 3 THEN
        <<s[1] * 4 + (s[2] \div 16), (s[2] % 16) * 16 + (s[3] \div 4)>>
    ELSE <<s[1] * 4 + (s[2] \div 16), (s[2] % 16) * 16 + (s[3] \div 4),
           (s[3] % 4) * 64 + s[4]>>
         \o DecodeSextets(SubSeq(s, 5, Len(s)))

StripPadding(s) ==
    IF Len(s) % 4 # 0 \/ Len(s) = 0 THEN s
    ELSE IF s[Len(s)] # PadChar THEN s
    ELSE IF s[Len(s) - 1] = PadChar THEN SubSeq(s, 1, Len(s) - 2)
    ELSE SubSeq(s, 1, Len(s) - 1)

Atob(base64) ==
    LET noSpace == SelectSeq(base64, LAMBDA c : c # SpaceChar)
        data == StripPadding(noSpace)
    IN  IF Len(data) % 4 = 1 \/ \E i \in 1..Len(data) : data[i] \notin 0..63
        THEN Err(InvalidCharacterError)
        ELSE Ok(DecodeSextets(data))

\* arrayBufferToBase64 that drops the bytes after the last full group of three
arrayBufferToBase64WithoutTail(buffer) ==
    Btoa(SubSeq(buffer, 1, Len(buffer) - (Len(buffer) % 3)))

arrayBufferToBase64(buffer) == Btoa(buffer)

base64ToArrayBuffer(base64) == Atob(base64)

(***************************************************************************)
(* PBKDF2 and AES-GCM (window.crypto.subtle).                              *)
(***************************************************************************)
Passphrases == {"abc123", "hunter2"}
PassByte(p) == IF p = "abc123" THEN 97 ELSE IF p = "hunter2" THEN 104 ELSE 0

SaltLen == 16
IvLen == 12
TagLen == 16

deriveKeyFromPassphraseWithoutPassphrase(pass, salt) ==
    [pass |-> "", salt |-> salt]

deriveKeyFromPassphrase(pass, salt) == [pass |-> pass, salt |-> salt]

KeyStream(key, iv) == (PassByte(key.pass) + SumSeq(key.salt) + SumSeq(iv)) % 256

\* the tag binds the key, the iv and the ciphertext body
AuthTag(key, iv, body) ==
    LET check == <<PassByte(key.pass), SumSeq(key.salt) % 256,
                   SumSeq(iv) % 256, SumSeq(body) % 256>>
    IN  [i \in 1..TagLen |-> check[((i - 1) % 4) + 1]]

AesGcmEncrypt(key, iv, data) ==
    LET ks == KeyStream(key, iv)
        body == [i \in 1..Len(data) |-> (data[i] + ks) % 256]
    IN  body \o AuthTag(key, iv, body)

\* an OperationError of subtle.decrypt is Err("OperationError")
AesGcmDecrypt(key, iv, cipher) ==
    IF Len(cipher) < TagLen THEN Err("OperationError")
    ELSE LET body == SubSeq(cipher, 1, Len(cipher) - TagLen)
             tag == SubSeq(cipher, Len(cipher) - TagLen + 1, Len(cipher))
             ks == KeyStream(key, iv)
         IN  IF tag # AuthTag(key, iv, body) THEN Err("OperationError")
             ELSE Ok([i \in 1..Len(body) |-> (body[i] + 256 - ks) % 256])

(***************************************************************************)
(* Documents: the AppDB and its JSON text.                                 *)
(* A student id "TATATB-<yy><yy+1><cc><seq>" is its six prefix digits and  *)
(* the digits of its sequence part.                                        *)
(***************************************************************************)
Strings == <<"", "Asha", "Raju", "Pravesham", "Pravalam", "Pradhanam",
             "Pravardham", "Praaveenyam", "checkin", "checkout", "father",
             "guardian2", "2015-06-01", "555-0100", "Lakshmi", " asha ",
             "555-0100 ">>
StrCode(s) == CHOOSE i \in 1..Len(Strings) : Strings[i] = s

EmptyDB == [students |-> <<>>, logs |-> <<>>]

IdText(id) == id.prefix \o <<Len(id.seq)>> \o id.seq
StudentText(s) ==
    <<StrCode(s.name), StrCode(s.classSection), StrCode(s.fatherName)>>
    \o IdText(s.id)
LogText(l) == <<StrCode(l.type), StrCode(l.collectedBy)>> \o IdText(l.studentId)

JSONStringify(obj) ==
    <<Len(obj.students)>>
    \o Flatten([i \in 1..Len(obj.students) |-> StudentText(obj.students[i])])
    \o <<Len(obj.logs)>>
    \o Flatten([i \in 1..Len(obj.logs) |-> LogText(obj.logs[i])])

PrefixLen == 6
IsDigits(s) == \A i \in 1..Len(s) : s[i] \in 0..9
IsStr(c) == c \in 1..Len(Strings)

\* each parser returns [ok, val, next]: the value read at pos and the next position
ParseFail == [ok |-> FALSE, val |-> <<>>, next |-> 0]

ParseId(t, pos) ==
    IF pos + PrefixLen > Len(t) THEN ParseFail
    ELSE LET n == t[pos + PrefixLen]
             prefix == SubSeq(t, pos, pos + PrefixLen - 1)
         IN  IF pos + PrefixLen + n > Len(t) THEN ParseFail
             ELSE LET seq == SubSeq(t, pos + PrefixLen + 1, pos + PrefixLen + n)
                  IN  IF ~(IsDigits(prefix) /\ IsDigits(seq)) THEN ParseFail
                      ELSE [ok |-> TRUE,
                            val |-> [prefix |-> prefix, seq |-> seq],
                            next |-> pos + PrefixLen + n + 1]

ParseStudent(t, pos) ==
    IF pos + 2 > Len(t) THEN ParseFail
    ELSE IF ~(IsStr(t[pos]) /\ IsStr(t[pos + 1]) /\ IsStr(t[pos + 2])) THEN ParseFail
    ELSE LET id == ParseId(t, pos + 3)
         IN  IF ~id.ok THEN ParseFail
             ELSE [ok |-> TRUE,
                   val |-> [id |-> id.val, name |-> Strings[t[pos]],
                            classSection |-> Strings[t[pos + 1]],
                            fatherName |-> Strings[t[pos + 2]]],
                   next |-> id.next]

ParseLog(t, pos) ==
    IF pos + 1 > Len(t) THEN ParseFail
    ELSE IF ~(IsStr(t[pos]) /\ IsStr(t[pos + 1])) THEN ParseFail
    ELSE LET id == ParseId(t, pos + 2)
         IN  IF ~id.ok THEN ParseFail
             ELSE [ok |-> TRUE,
                   val |-> [studentId |-> id.val, type |-> Strings[t[pos]],
                            collectedBy |-> Strings[t[pos + 1]]],
                   next |-> id.next]

RECURSIVE ParseStudents(_, _, _)
ParseStudents(t, pos, n) ==
    IF n = 0 THEN [ok |-> TRUE, val |-> <<>>, next |-> pos]
    ELSE LET s == ParseStudent(t, pos)
         IN  IF ~s.ok THEN ParseFail
             ELSE LET rest == ParseStudents(t, s.next, n - 1)
                  IN  IF ~rest.ok THEN ParseFail
                      ELSE [ok |-> TRUE, val |-> <<s.val>> \o rest.val,
                            next |-> rest.next]

RECURSIVE ParseLogs(_, _, _)
ParseLogs(t, pos, n) ==
    IF n = 0 THEN [ok |-> TRUE, val |-> <<>>, next |-> pos]
    ELSE LET l == ParseLog(t, pos)
         IN  IF ~l.ok THEN ParseFail
             ELSE LET rest == ParseLogs(t, l.next, n - 1)
                  IN  IF ~rest.ok THEN ParseFail
                      ELSE [ok |-> TRUE, val |-> <<l.val>> \o rest.val,
                            next |-> rest.next]

JSONParse(t) ==
    IF Len(t) = 0 THEN Err(SyntaxError)
    ELSE LET ss == ParseStudents(t, 2, t[1])
         IN  IF ~ss.ok \/ ss.next > Len(t) THEN Err(SyntaxError)
             ELSE LET ll == ParseLogs(t, ss.next + 1, t[ss.next])
                  IN  IF ~ll.ok \/ ll.next # Len(t) + 1 THEN Err(SyntaxError)
                      ELSE Ok([students |-> ss.val, logs |-> ll.val])

(***************************************************************************)
(* encryptJSON, decryptJSON.  The random salt and iv are parameters.       *)
(* TextEncoder/TextDecoder: every character of the text is ASCII, one byte *)
(* each.  The blob string JSON.stringify({salt, iv, cipher}) is the record *)
(* of its three base64 strings.                                            *)
(***************************************************************************)
encryptJSON(obj, pass, salt, iv) ==
    LET key == deriveKeyFromPassphrase(pass, salt)
        data == JSONStringify(obj)
        cipher == AesGcmEncrypt(key, iv, data)
    IN  [salt |-> arrayBufferToBase64(salt),
         iv |-> arrayBufferToBase64(iv),
         cipher |-> arrayBufferToBase64(cipher)]

decryptJSON(encryptedStr, pass) ==
    LET salt == base64ToArrayBuffer(encryptedStr.salt)
        iv == base64ToArrayBuffer(encryptedStr.iv)
        cipher == base64ToArrayBuffer(encryptedStr.cipher)
    IN  IF ~IsOk(salt) THEN salt
        ELSE IF ~IsOk(iv) THEN iv
        ELSE IF ~IsOk(cipher) THEN cipher
        ELSE LET key == deriveKeyFromPassphrase(pass, salt.value)
                 plain == AesGcmDecrypt(key, iv.value, cipher.value)
             IN  IF ~IsOk(plain) THEN Err(DecryptionFailed)
                 ELSE LET parsed == JSONParse(plain.value)
                      IN  IF ~IsOk(parsed) THEN Err(DecryptionFailed)
                          ELSE parsed

(***************************************************************************)
(* generateStudentId.                                                      *)
(***************************************************************************)
Years == {2025}
SeqWidth == 4

\* Number.prototype.toString: the decimal digits of n
RECURSIVE ToDigits(_)
ToDigits(n) == IF n < 10 THEN <<n>> ELSE ToDigits(n \div 10) \o <<n % 10>>

\* parseInt(m[1], 10) of a string of digits
RECURSIVE ParseInt(_)
ParseInt(d) ==
    IF Len(d) = 0 THEN 0
    ELSE ParseInt(SubSeq(d, 1, Len(d) - 1)) * 10 + d[Len(d)]

\* String.prototype.padStart(width, '0')
PadStart(d, width) ==
    IF Len(d) >= width THEN d ELSE Constant(width - Len(d), 0) \o d

\* String(year).slice(-2)
LastTwo(year) == <<(year % 100) \div 10, year % 10>>

classMap(classSection) ==
    CASE classSection = "Pravesham" -> <<0, 1>>
      [] classSection = "Pravalam" -> <<0, 2>>
      [] classSection = "Pradhanam" -> <<0, 3>>
      [] classSection = "Pravardham" -> <<0, 4>>
      [] classSection = "Praaveenyam" -> <<0, 5>>
      [] OTHER -> <<0, 0>>

IdPrefix(classSection, year) ==
    LastTwo(year) \o LastTwo(year + 1) \o classMap(classSection)

\* the regular expression without the prefix: /(\d{4})$/
RegexMatchesAnyPrefix(id, prefix) == Len(id.seq) = SeqWidth

\* s.id.match(/^<prefix>(\d{4})$/)
RegexMatches(id, prefix) == id.prefix = prefix /\ Len(id.seq) = SeqWidth

\* the for loop over existingStudents, from position i with maxSeq = m
RECURSIVE MaxSeqFrom(_, _, _, _)
MaxSeqFrom(list, prefix, i, m) ==
    IF i > Len(list) THEN m
    ELSE LET seq == ParseInt(list[i].id.seq)
         IN  MaxSeqFrom(list, prefix, i + 1,
                        IF RegexMatches(list[i].id, prefix) /\ seq > m
                        THEN seq ELSE m)

generateStudentId(classSection, enrollmentYear, existingStudents) ==
    LET prefix == IdPrefix(classSection, enrollmentYear)
        maxSeq == MaxSeqFrom(existingStudents, prefix, 1, 0)
    IN  [prefix |-> prefix, seq |-> PadStart(ToDigits(maxSeq + 1), SeqWidth)]

(***************************************************************************)
(* Storage layer.  A slot is <<>> (no value) or <<blob>>.  The outcome of  *)
(* each request to the browser is a parameter of the call:                 *)
(*   loadDB: env.idbGetOk, env.idbPutOk, env.lsRemoveOk (removeItem is     *)
(*           called only after a put that succeeded);                      *)
(*   saveDB: env.cryptoOk, env.idbPutOk, env.lsSet ("ok", "quota",         *)
(*           "error"; setItem is called only after a put that failed).     *)
(***************************************************************************)
LoadEnvs ==
    {e \in [idbGetOk : BOOLEAN, idbPutOk : BOOLEAN, lsRemoveOk : BOOLEAN] :
        e.lsRemoveOk => e.idbPutOk}
SaveEnvs ==
    {e \in [cryptoOk : BOOLEAN, idbPutOk : BOOLEAN,
            lsSet : {"ok", "quota", "error"}] :
        /\ e.idbPutOk => e.lsSet = "ok"
        /\ ~e.cryptoOk => e.idbPutOk}
Working == [idbGetOk |-> TRUE, idbPutOk |-> TRUE, lsRemoveOk |-> TRUE]

Loaded(result, idbv, lsv, path) ==
    [result |-> result, idb |-> idbv, ls |-> lsv, path |-> path]

\* loadDB with "return await decryptJSON(...)" inside the try block: the
\* rejection is caught there and the legacy slot is tried
loadDBAwaitingDecrypt(idbv, lsv, pass, env) ==
    LET primary == IF env.idbGetOk /\ idbv # <<>>
                   THEN decryptJSON(idbv[1], pass) ELSE Err("none")
    IN  IF IsOk(primary) THEN Loaded(primary, idbv, lsv, "primary")
        ELSE IF lsv = <<>> THEN Loaded(Ok(EmptyDB), idbv, lsv, "empty")
        ELSE Loaded(decryptJSON(lsv[1], pass),
                    IF env.idbPutOk THEN lsv ELSE idbv,
                    IF env.idbPutOk /\ env.lsRemoveOk THEN <<>> ELSE lsv,
                    "legacy")

\* loadDB that migrates without removing the legacy item
loadDBKeepingLegacy(idbv, lsv, pass, env) ==
    IF env.idbGetOk /\ idbv # <<>>
    THEN Loaded(decryptJSON(idbv[1], pass), idbv, lsv, "primary")
    ELSE IF lsv = <<>> THEN Loaded(Ok(EmptyDB), idbv, lsv, "empty")
    ELSE Loaded(decryptJSON(lsv[1], pass),
                IF env.idbPutOk THEN lsv ELSE idbv, lsv, "legacy")

\* loadDB without the "if (!ls) return" line: decryptJSON(null) throws
loadDBWithoutEmptyCheck(idbv, lsv, pass, env) ==
    IF env.idbGetOk /\ idbv # <<>>
    THEN Loaded(decryptJSON(idbv[1], pass), idbv, lsv, "primary")
    ELSE IF lsv = <<>> THEN Loaded(Err("TypeError"), idbv, lsv, "empty")
    ELSE Loaded(decryptJSON(lsv[1], pass),
                IF env.idbPutOk THEN lsv ELSE idbv,
                IF env.idbPutOk /\ env.lsRemoveOk THEN <<>> ELSE lsv,
                "legacy")

\* loadDB whose migration is not wrapped in try: a failed idbPut is thrown
loadDBThrowingOnMigration(idbv, lsv, pass, env) ==
    IF env.idbGetOk /\ idbv # <<>>
    THEN Loaded(decryptJSON(idbv[1], pass), idbv, lsv, "primary")
    ELSE IF lsv = <<>> THEN Loaded(Ok(EmptyDB), idbv, lsv, "empty")
    ELSE IF ~env.idbPutOk THEN Loaded(Err("idbPut"), idbv, lsv, "legacy")
    ELSE Loaded(decryptJSON(lsv[1], pass), lsv,
                IF env.lsRemoveOk THEN <<>> ELSE lsv, "legacy")

\* loadDB: what it returns or throws, the slots after it, the slot it used.
\* "return decryptJSON(...)" in the try block is not awaited: its rejection
\* goes to the caller, not to the catch.
loadDB(idbv, lsv, pass, env) ==
    IF env.idbGetOk /\ idbv # <<>>
    THEN Loaded(decryptJSON(idbv[1], pass), idbv, lsv, "primary")
    ELSE IF lsv = <<>> THEN Loaded(Ok(EmptyDB), idbv, lsv, "empty")
    ELSE Loaded(decryptJSON(lsv[1], pass),
                IF env.idbPutOk THEN lsv ELSE idbv,
                IF env.idbPutOk /\ env.lsRemoveOk THEN <<>> ELSE lsv,
                "legacy")

Saved(result, idbv, lsv) == [result |-> result, idb |-> idbv, ls |-> lsv]

\* saveDB whose localStorage fallback swallows the error of setItem
saveDBSwallowing(idbv, lsv, dbObj, pass, rnd, env) ==
    LET encStr == encryptJSON(dbObj, pass, rnd.salt, rnd.iv)
    IN  IF ~env.cryptoOk THEN Saved(Err("crypto"), idbv, lsv)
        ELSE IF env.idbPutOk THEN Saved(Ok("saved"), <<encStr>>, lsv)
        ELSE IF env.lsSet = "ok" THEN Saved(Ok("saved"), idbv, <<encStr>>)
        ELSE Saved(Ok("saved"), idbv, lsv)

\* saveDB that tries localStorage first and IndexedDB after it
saveDBLegacyFirst(idbv, lsv, dbObj, pass, rnd, env) ==
    LET encStr == encryptJSON(dbObj, pass, rnd.salt, rnd.iv)
    IN  IF ~env.cryptoOk THEN Saved(Err("crypto"), idbv, lsv)
        ELSE IF env.lsSet = "ok" THEN Saved(Ok("saved"), idbv, <<encStr>>)
        ELSE IF env.idbPutOk THEN Saved(Ok("saved"), <<encStr>>, lsv)
        ELSE IF env.lsSet = "quota" THEN Saved(Err(QuotaMessage), idbv, lsv)
        ELSE Saved(Err("setItem"), idbv, lsv)

\* saveDB: what it returns or throws and the slots after it
saveDB(idbv, lsv, dbObj, pass, rnd, env) ==
    LET encStr == encryptJSON(dbObj, pass, rnd.salt, rnd.iv)
    IN  IF ~env.cryptoOk THEN Saved(Err("crypto"), idbv, lsv)
        ELSE IF env.idbPutOk THEN Saved(Ok("saved"), <<encStr>>, lsv)
        ELSE IF env.lsSet = "ok" THEN Saved(Ok("saved"), idbv, <<encStr>>)
        ELSE IF env.lsSet = "quota" THEN Saved(Err(QuotaMessage), idbv, lsv)
        ELSE Saved(Err("setItem"), idbv, lsv)

(***************************************************************************)
(* The App: lock screen and handlers.  Every handler runs to completion:   *)
(* its state update, its loadDB or saveDB call and what it reports.        *)
(***************************************************************************)
TypedPassphrases == {"", "abc123"}
\* what getRandomValues returns for the salt and for the iv of one call
Randoms == {[salt |-> Constant(SaltLen, 7), iv |-> Constant(IvLen, 3)],
            [salt |-> Constant(SaltLen, 200), iv |-> Constant(IvLen, 255)]}
Forms == [name : {"Asha"}, classSection : {"Pravesham"}, fatherName : {""}]

NoCall == [op |-> "none"]
SaveOps == {"create", "enroll", "delete", "clear"}

\* the record of a completed call: what it reported and how the browser answered
Call(op, result, path, env) ==
    [op |-> op, kind |-> result.kind,
     error |-> IF IsOk(result) THEN "" ELSE result.error,
     path |-> path, env |-> env]

\* Firestore users; TEST_UID is the uid the Firestore-backed App uses
TEST_UID == "testuser_shared"
Uids == {"userA", "userB", TEST_UID}
NoDocs == [u \in Uids |-> <<>>]
\* cloud-sync.ts as loaded: both clients null, nobody signed in
\* cfg is what import('./cloud-config') gives: "missing" (no such module),
\* "empty" (FIREBASE_CONFIG without keys) or "valid"; user is Firebase Auth's
\* currentUser; observing: an observer is registered with Firebase Auth;
\* asked: onAuthChanged(cb) has been called; moved: the identity has changed
\* since; told: the argument of the last call of cb; uploaded: the argument
\* of the last call of uploadEncryptedBlob
SyncStart ==
    [cfg |-> "missing", dbClient |-> FALSE, authClient |-> FALSE,
     user |-> "none", observing |-> FALSE, asked |-> FALSE, moved |-> FALSE,
     told |-> "never", uploaded |-> <<>>]
\* the Firestore-backed App is not the one running
App3Off == [running |-> FALSE]
InitCloud ==
    /\ remote = NoDocs
    /\ sync = SyncStart
    /\ app3 = App3Off
    /\ drawn = 0
    /\ pending = <<>>

Init ==
    /\ idb = <<>>
    /\ ls = <<>>
    /\ db = EmptyDB
    /\ passphrase = ""
    /\ unlocked = FALSE
    /\ last = NoCall
    /\ InitCloud

\* the page is loaded again: React state starts over, the stores stay
Reload ==
    /\ unlocked
    /\ db' = EmptyDB
    /\ passphrase' = ""
    /\ unlocked' = FALSE
    /\ last' = NoCall
    /\ UNCHANGED <<idb, ls>>
    /\ UNCHANGED cloudVars

\* the passphrase input of the lock screen
SetPassphrase(p) ==
    /\ ~unlocked
    /\ passphrase # p
    /\ passphrase' = p
    /\ last' = NoCall
    /\ UNCHANGED <<idb, ls, db, unlocked>>
    /\ UNCHANGED cloudVars

handleUnlock(env) ==
    /\ ~unlocked
    /\ LET r == loadDB(idb, ls, passphrase, env)
       IN  /\ idb' = r.idb
           /\ ls' = r.ls
           /\ db' = IF IsOk(r.result) THEN r.result.value ELSE db
           /\ unlocked' = IsOk(r.result)
           /\ last' = Call("unlock", r.result, r.path, env)
    /\ UNCHANGED passphrase
    /\ UNCHANGED cloudVars

\* the Create button of the lock screen, the prompt answered with v
Create(v, rnd, env) ==
    /\ ~unlocked
    /\ v # ""
    /\ LET r == saveDB(idb, ls, EmptyDB, v, rnd, env)
       IN  /\ passphrase' = v
           /\ idb' = r.idb
           /\ ls' = r.ls
           /\ db' = IF IsOk(r.result) THEN EmptyDB ELSE db
           /\ unlocked' = IsOk(r.result)
           /\ last' = Call("create", r.result, "", env)
    /\ UNCHANGED cloudVars

\* setDb(newDb); await saveDB(newDb, passphrase); alert
SaveNew(op, newDb, rnd, env) ==
    LET r == saveDB(idb, ls, newDb, passphrase, rnd, env)
    IN  /\ db' = newDb
        /\ idb' = r.idb
        /\ ls' = r.ls
        /\ last' = Call(op, r.result, "", env)
        /\ UNCHANGED <<passphrase, unlocked>>
        /\ UNCHANGED cloudVars

handleAddStudent(form, year, rnd, env) ==
    /\ unlocked
    /\ LET id == generateStudentId(form.classSection, year, db.students)
           newStudent == [id |-> id, name |-> form.name,
                          classSection |-> form.classSection,
                          fatherName |-> form.fatherName]
       IN  SaveNew("enroll", [db EXCEPT !.students = <<newStudent>> \o @],
                   rnd, env)

handleDeleteStudent(id, rnd, env) ==
    /\ unlocked
    /\ SaveNew("delete",
               [db EXCEPT !.students = SelectSeq(@, LAMBDA s : s.id # id)],
               rnd, env)

handleClearAllEnrollments(rnd, env) ==
    /\ unlocked
    /\ Len(db.students) > 0
    /\ SaveNew("clear", [db EXCEPT !.students = <<>>], rnd, env)

StudentsOf(d) == {d.students[i] : i \in 1..Len(d.students)}
NextSeqNo(form, year) ==
    ParseInt(generateStudentId(form.classSection, year, db.students).seq)

\* the local store under the lock screen and the enrollment handlers
Next ==
    \/ Reload
    \/ \E p \in TypedPassphrases : SetPassphrase(p)
    \/ \E env \in LoadEnvs : handleUnlock(env)
    \/ \E v \in TypedPassphrases, rnd \in Randoms, env \in SaveEnvs :
          Create(v, rnd, env)
    \/ \E form \in Forms, year \in Years, rnd \in Randoms, env \in SaveEnvs :
          /\ Len(db.students) < MaxStudents
          /\ NextSeqNo(form, year) <= MaxSeqNo
          /\ handleAddStudent(form, year, rnd, env)
    \/ \E s \in StudentsOf(db), rnd \in Randoms, env \in SaveEnvs :
          handleDeleteStudent(s.id, rnd, env)

Spec == Init /\ [][Next]_vars

(***************************************************************************)
(* Properties of the local store (specification Spec).                     *)
(***************************************************************************)
\* the blob loadDB decrypts: the primary one when idbGet returns it, else the
\* legacy one
FoundBlob(idbv, lsv, env) == IF env.idbGetOk /\ idbv # <<>> THEN idbv ELSE lsv

\* saveDB fails: encryption fails, or both writes fail
SaveFails(env) == ~env.cryptoOk \/ (~env.idbPutOk /\ env.lsSet # "ok")

\* C1: once saveDB(db, p) has returned without throwing, the next loadDB(p)
\* (both tiers working) returns a document equal to db, whatever the slots
\* held before and however the browser answered the save.
SaveThenLoadReturnsDb ==
    (last.op \in SaveOps /\ last.kind = "ok") =>
        loadDB(idb, ls, passphrase, Working).result = Ok(db)

\* C2: whenever saveDB fails it throws to its caller and both slots hold
\* exactly what they held before the call.
FailedSaveThrowsAndKeepsSlots ==
    [][(last'.op \in SaveOps /\ SaveFails(last'.env)) =>
          (last'.kind = "error" /\ idb' = idb /\ ls' = ls)]_vars

\* a save has failed while the primary slot held a blob
FailedSaveOverBlob ==
    /\ last.op \in SaveOps
    /\ SaveFails(last.env)
    /\ last.kind = "error"
    /\ idb # <<>>

MigrationMovesLegacyBlob ==
    [][(/\ last'.op = "unlock"
        /\ idb = <<>>
        /\ ls # <<>>
        /\ last'.env = Working
        /\ IsOk(decryptJSON(ls[1], passphrase))) =>
          /\ last'.kind = "ok"
          /\ unlocked'
          /\ db' = decryptJSON(ls[1], passphrase).value
          /\ idb' = ls
          /\ ls' = <<>>]_vars

\* unlock has migrated a legacy blob that holds a student
MigratedLegacyBlob ==
    /\ last.op = "unlock"
    /\ last.path = "legacy"
    /\ last.env = Working
    /\ last.kind = "ok"
    /\ Len(db.students) > 0
    /\ idb # <<>>
    /\ ls = <<>>

\* C5: when the blob found in the primary slot (or, if none is found there,
\* in the legacy slot) does not decrypt under the supplied passphrase, unlock
\* reports the decryption error, the session stays locked, the in-memory
\* database is not replaced, and no other slot or empty database is used.
UndecryptableBlobKeepsLocked ==
    [][(/\ last'.op = "unlock"
        /\ FoundBlob(idb, ls, last'.env) # <<>>
        /\ ~IsOk(decryptJSON(FoundBlob(idb, ls, last'.env)[1], passphrase))) =>
          /\ last'.kind = "error"
          /\ last'.error = DecryptionFailed
          /\ ~unlocked'
          /\ db' = db]_vars

\* unlock has failed on the primary blob while the legacy slot held a blob
\* that the same passphrase decrypts
UnlockFailedOnPrimaryBlob ==
    /\ last.op = "unlock"
    /\ last.path = "primary"
    /\ last.kind = "error"
    /\ ~unlocked
    /\ ls # <<>>
    /\ IsOk(decryptJSON(ls[1], passphrase))

(***************************************************************************)
(* The cipher on its own (specification SpecCipher): a document and a      *)
(* passphrase are drawn, encryptJSON makes the blob (kept in idb), the     *)
(* cipher field of the blob may have one character replaced, decryptJSON   *)
(* reads the blob.  db is the document, passphrase the passphrase given to *)
(* encryptJSON.                                                            *)
(***************************************************************************)
MkStudent(name, classSection, seqNo) ==
    [id |-> [prefix |-> IdPrefix(classSection, 2025),
             seq |-> PadStart(ToDigits(seqNo), SeqWidth)],
     name |-> name, classSection |-> classSection, fatherName |-> ""]
MkLog(student, type, collectedBy) ==
    [studentId |-> student.id, type |-> type, collectedBy |-> collectedBy]

CipherDocs ==
    LET asha == MkStudent("Asha", "Pravesham", 1)
        raju == MkStudent("Raju", "Pravalam", 12)
    IN  {EmptyDB,
         [students |-> <<asha>>, logs |-> <<>>],
         [students |-> <<raju, asha>>, logs |-> <<>>],
         [students |-> <<asha>>, logs |-> <<MkLog(asha, "checkin", "")>>],
         [students |-> <<raju>>,
          logs |-> <<MkLog(raju, "checkout", "father"),
                     MkLog(raju, "checkin", "")>>]}
CipherPassphrases == {""} \cup Passphrases

\* what replaces a character c of the cipher string: another character of
\* the alphabet, '=', a space, or a character outside the alphabet
Replacements(c) ==
    {(c + 1) % 64, (c + 32) % 64, PadChar, SpaceChar, BangChar} \ {c}

InitCipher ==
    /\ db \in CipherDocs
    /\ passphrase \in CipherPassphrases
    /\ idb = <<>>
    /\ ls = <<>>
    /\ unlocked = FALSE
    /\ last = NoCall
    /\ InitCloud

Encrypt(rnd) ==
    /\ last.op = "none"
    /\ idb' = <<encryptJSON(db, passphrase, rnd.salt, rnd.iv)>>
    /\ last' = [op |-> "encrypt"]
    /\ UNCHANGED <<ls, db, passphrase, unlocked>>
    /\ UNCHANGED cloudVars

\* the positions of the cipher string of the stored blob
CipherPositions == IF idb = <<>> THEN {} ELSE 1..Len(idb[1].cipher)

\* one character of the cipher field of the stored blob is replaced
TamperCipher(pos, ch) ==
    /\ last.op = "encrypt"
    /\ pos \in CipherPositions
    /\ ch \in Replacements(idb[1].cipher[pos])
    /\ idb' = <<[idb[1] EXCEPT !.cipher[pos] = ch]>>
    /\ last' = [op |-> "tamper"]
    /\ UNCHANGED <<ls, db, passphrase, unlocked>>
    /\ UNCHANGED cloudVars

Decrypt(pass) ==
    /\ last.op \in {"encrypt", "tamper"}
    /\ last.op = "tamper" => pass = passphrase
    /\ last' = [op |-> "decrypt", pass |-> pass,
                tampered |-> (last.op = "tamper"),
                out |-> decryptJSON(idb[1], pass)]
    /\ UNCHANGED <<idb, ls, db, passphrase, unlocked>>
    /\ UNCHANGED cloudVars

NextCipher ==
    \/ \E rnd \in Randoms : Encrypt(rnd)
    \/ \E pos \in CipherPositions, ch \in Base64Chars : TamperCipher(pos, ch)
    \/ \E pass \in CipherPassphrases : Decrypt(pass)

SpecCipher == InitCipher /\ [][NextCipher]_vars

\* C8: for every passphrase p and document d,
\* decryptJSON(encryptJSON(d, p), p) equals d.
CipherRoundTrip ==
    (last.op = "decrypt" /\ ~last.tampered /\ last.pass = passphrase) =>
        (last.out.kind = "ok" /\ last.out.value = db)

\* a blob of a document with students and logs has been decrypted with the
\* passphrase it was encrypted with
RoundTripDone ==
    /\ last.op = "decrypt"
    /\ ~last.tampered
    /\ last.pass = passphrase
    /\ Len(db.students) > 0
    /\ Len(db.logs) > 1
    /\ last.out.kind = "ok"

\* C9: for all passphrases p1 # p2 and every document d,
\* decryptJSON(encryptJSON(d, p1), p2) fails with the decryption error and
\* returns no document.
WrongPassphraseFails ==
    (last.op = "decrypt" /\ ~last.tampered /\ last.pass # passphrase) =>
        (last.out.kind = "error" /\ last.out.error = DecryptionFailed)

\* a blob has been decrypted with another passphrase than its own
WrongPassphraseTried ==
    /\ last.op = "decrypt"
    /\ ~last.tampered
    /\ last.pass = "hunter2"
    /\ passphrase = "abc123"
    /\ Len(db.students) > 0
    /\ last.out.kind = "error"

\* C10: after one byte of the cipher field of a blob made by encryptJSON has
\* been altered, decryptJSON with the original passphrase fails with the
\* "Decryption failed" error: with no other error, and never by returning
\* a document.
TamperedCipherFails ==
    (last.op = "decrypt" /\ last.tampered) =>
        (last.out.kind = "error" /\ last.out.error = DecryptionFailed)

(***************************************************************************)
(* Enrollment on its own (specification SpecId): an unlocked session that  *)
(* enrolls into two classes and clears all enrollments.  It starts on an   *)
(* empty database, or on the database left by 9999 enrollments into one    *)
(* class and the deletion of the first 9998 students.                      *)
(***************************************************************************)
MaxIdStudents == 3   \* students in the in-memory database (SpecId)

IdForms ==
    [name : {"Asha"}, classSection : {"Pravesham", "Pravalam"},
     fatherName : {""}]
IdStartDocs ==
    {EmptyDB,
     [students |-> <<MkStudent("Raju", "Pravesham", 9999)>>, logs |-> <<>>]}
IdRandom == [salt |-> Constant(SaltLen, 7), iv |-> Constant(IvLen, 3)]
\* a save that works, and one that fails on both tiers
IdSaveEnvs ==
    {[cryptoOk |-> TRUE, idbPutOk |-> TRUE, lsSet |-> "ok"],
     [cryptoOk |-> TRUE, idbPutOk |-> FALSE, lsSet |-> "quota"]}

InitId ==
    /\ db \in IdStartDocs
    /\ passphrase = "abc123"
    /\ unlocked = TRUE
    /\ idb = IF db = EmptyDB THEN <<>>
             ELSE <<encryptJSON(db, passphrase, IdRandom.salt, IdRandom.iv)>>
    /\ ls = <<>>
    /\ last = NoCall
    /\ InitCloud

NextId ==
    \/ \E form \in IdForms, year \in Years, env \in IdSaveEnvs :
          /\ Len(db.students) < MaxIdStudents
          /\ handleAddStudent(form, year, IdRandom, env)
    \/ \E env \in IdSaveEnvs : handleClearAllEnrollments(IdRandom, env)

SpecId == InitId /\ [][NextId]_vars

\* C6: generateStudentId returns an identifier no student of the list has,
\* so no two students in the database share an identifier.
NoTwoStudentsShareId ==
    \A i, j \in 1..Len(db.students) :
        i # j => db.students[i].id # db.students[j].id

\* the students with this prefix, in enrollment order (handleAddStudent puts
\* a new student in front)
EnrolledWith(prefix) ==
    LET same == SelectSeq(db.students, LAMBDA s : s.id.prefix = prefix)
    IN  [k \in 1..Len(same) |-> same[Len(same) + 1 - k]]

\* C7: students enrolled one after another into one class in one year,
\* starting with no student of that class and year, have the sequence parts
\* 0001, 0002, ..., N in enrollment order.
SequencePartsCountUp ==
    \A form \in IdForms, year \in Years :
        LET run == EnrolledWith(IdPrefix(form.classSection, year))
        IN  (Len(run) > 0 /\ run[1].id.seq = <<0, 0, 0, 1>>) =>
                \A k \in 1..Len(run) :
                    run[k].id.seq = PadStart(ToDigits(k), SeqWidth)

\* three students have been enrolled into one class, a student of the other
\* class between them
ThreeEnrolledInOneClass ==
    /\ last.op = "enroll"
    /\ Len(db.students) = MaxIdStudents
    /\ \E form \in IdForms, year \in Years :
          LET run == EnrolledWith(IdPrefix(form.classSection, year))
          IN  /\ Len(run) >= 2
              /\ run[1].id.seq = <<0, 0, 0, 1>>
              /\ run[Len(run)] = db.students[1]
              /\ db.students[2].id.prefix # run[1].id.prefix

(***************************************************************************)
(* The random salt and iv (specification SpecFresh).  getRandomValues is   *)
(* an ideal generator: the value of its k-th call is one no other call     *)
(* returns.  Calls of encryptJSON follow one another; last.blobs holds the *)
(* blobs they returned.                                                    *)
(***************************************************************************)
MaxCalls == 3   \* calls of encryptJSON (SpecFresh)

\* the n bytes the k-th call of getRandomValues returns
RandomBytes(n, k) == [i \in 1..n |-> (k + i) % 256]

\* encryptJSON that draws its salt once and keeps it for later calls
DrawSaltIvKeepingSalt(count) ==
    [salt |-> RandomBytes(SaltLen, 1), iv |-> RandomBytes(IvLen, count + 2)]

\* the salt and the iv of a call of encryptJSON made when the generator has
\* returned count values
DrawSaltIv(count) ==
    [salt |-> RandomBytes(SaltLen, count + 1),
     iv |-> RandomBytes(IvLen, count + 2)]

FreshDocs == {EmptyDB, [students |-> <<MkStudent("Asha", "Pravesham", 1)>>,
                        logs |-> <<>>]}

InitFresh ==
    /\ idb = <<>>
    /\ ls = <<>>
    /\ db = EmptyDB
    /\ passphrase = ""
    /\ unlocked = FALSE
    /\ last = [op |-> "encrypt", blobs |-> <<>>]
    /\ InitCloud

EncryptFresh(obj, pass) ==
    /\ Len(last.blobs) < MaxCalls
    /\ LET rnd == DrawSaltIv(drawn)
       IN  last' = [op |-> "encrypt",
                    blobs |-> Append(last.blobs,
                                     encryptJSON(obj, pass, rnd.salt, rnd.iv))]
    /\ drawn' = drawn + 2
    /\ db' = obj
    /\ passphrase' = pass
    /\ UNCHANGED <<idb, ls, unlocked, remote, sync, app3, pending>>

NextFresh == \E obj \in FreshDocs, pass \in CipherPassphrases :
                EncryptFresh(obj, pass)

SpecFresh == InitFresh /\ [][NextFresh]_vars

\* C11: any two calls of encryptJSON, also with the same document and
\* passphrase, return blobs whose salt fields differ and whose iv fields
\* differ, so no (salt, iv) pair is used twice.
SaltAndIvNeverRepeat ==
    \A i, j \in 1..Len(last.blobs) :
        i # j => /\ last.blobs[i].salt # last.blobs[j].salt
                 /\ last.blobs[i].iv # last.blobs[j].iv

\* the same document has been encrypted three times with the same passphrase
SameInputEncryptedAgain ==
    /\ Len(last.blobs) = 3
    /\ db # EmptyDB
    /\ \A i \in 1..3 :
          /\ decryptJSON(last.blobs[i], passphrase).kind = "ok"
          /\ decryptJSON(last.blobs[i], passphrase).value = db

(***************************************************************************)
(* More properties of the local store (specification Spec).                *)
(***************************************************************************)
\* the blob of the document and passphrase the step ends with
BlobOfNewState(slot) ==
    \E rnd \in Randoms :
        slot = <<encryptJSON(db', passphrase', rnd.salt, rnd.iv)>>

\* C12: saveDB tries IndexedDB first and writes to localStorage only when the
\* IndexedDB write has failed; a quota failure of localStorage reaches the
\* caller as the 'Storage quota exceeded' error, distinct from any other
\* failure, and is never swallowed.
LargeTierFirstAndQuotaRaised ==
    [][(last'.op \in SaveOps /\ last'.env.cryptoOk) =>
          /\ last'.env.idbPutOk =>
                (last'.kind = "ok" /\ BlobOfNewState(idb') /\ ls' = ls)
          /\ (~last'.env.idbPutOk /\ last'.env.lsSet = "ok") =>
                (last'.kind = "ok" /\ BlobOfNewState(ls') /\ idb' = idb)
          /\ (~last'.env.idbPutOk /\ last'.env.lsSet = "quota") =>
                (last'.kind = "error" /\ last'.error = QuotaMessage)
          /\ (~last'.env.idbPutOk /\ last'.env.lsSet = "error") =>
                (last'.kind = "error" /\ last'.error # QuotaMessage)]_vars

\* a save has met a full localStorage after IndexedDB had failed, and the
\* legacy slot holds the blob of an earlier fallback
QuotaErrorRaised ==
    /\ last.op \in SaveOps
    /\ ~last.env.idbPutOk
    /\ last.env.lsSet = "quota"
    /\ last.error = QuotaMessage
    /\ ls # <<>>

(***************************************************************************)
(* cloud-sync.ts (the Sync Client).  Each exported function is an operator *)
(* from the module state, the Firestore documents and the answers of       *)
(* Firebase (env) to its result, the module state and the documents after  *)
(* it.  null is <<>>, a blob b is <<b>>.                                   *)
(***************************************************************************)
Configs == {"missing", "empty", "valid"}

\* tryInitDb: [db, sync]; env.firestoreOk: initializeApp and getFirestore
\* return; env.authOk: getAuth returns
tryInitDb(sy, env) ==
    IF sy.dbClient THEN [db |-> TRUE, sync |-> sy]
    ELSE IF sy.cfg # "valid" \/ ~env.firestoreOk
    THEN [db |-> FALSE, sync |-> [sy EXCEPT !.dbClient = FALSE]]
    ELSE [db |-> TRUE,
          sync |-> [sy EXCEPT !.dbClient = TRUE, !.authClient = env.authOk]]

\* Firebase Auth moves to identity u and tells its observer
IdentityBecomes(sy, u) ==
    [sy EXCEPT !.user = u,
               !.moved = @ \/ (sy.asked /\ u # sy.user),
               !.told = IF sy.observing /\ u # sy.user THEN u ELSE @]

\* signIn; env.cred is the uid the credentials belong to, or "wrong"
signIn(sy, env) ==
    LET init == tryInitDb(sy, env)
    IN  IF ~init.sync.authClient
        THEN [result |-> Err("Auth not initialized"), sync |-> init.sync]
        ELSE IF env.cred \notin Uids
        THEN [result |-> Err("auth/wrong-password"), sync |-> init.sync]
        ELSE [result |-> Ok(env.cred),
              sync |-> IdentityBecomes(init.sync, env.cred)]

\* signOut; env.remoteOk: fbSignOut resolves
signOut(sy, env) ==
    IF ~sy.authClient \/ ~env.remoteOk
    THEN [result |-> Ok("undefined"), sync |-> sy]
    ELSE [result |-> Ok("undefined"), sync |-> IdentityBecomes(sy, "none")]

\* onAuthChanged(cb); Firebase calls a new observer with the current user
onAuthChanged(sy) ==
    IF ~sy.authClient
    THEN [result |-> Ok("undefined"),
          sync |-> [sy EXCEPT !.asked = TRUE, !.moved = FALSE]]
    ELSE [result |-> Ok("undefined"),
          sync |-> [sy EXCEPT !.asked = TRUE, !.moved = FALSE,
                              !.observing = TRUE, !.told = sy.user]]

\* a document path that does not depend on the uid
userPathDocShared(dbc, uid) == TEST_UID

\* userPathDoc: the document users/{uid}/ttb_sync/main
userPathDoc(dbc, uid) == uid

\* fetchEncryptedBlob without its try/catch
fetchEncryptedBlobThrowing(sy, rem, env) ==
    LET init == tryInitDb(sy, env)
    IN  IF ~init.db \/ ~init.sync.authClient \/ init.sync.user = "none"
        THEN [result |-> Ok(<<>>), sync |-> init.sync]
        ELSE IF ~env.remoteOk
        THEN [result |-> Err("unavailable"), sync |-> init.sync]
        ELSE [result |-> Ok(rem[userPathDoc(init.db, init.sync.user)]),
              sync |-> init.sync]

\* fetchEncryptedBlob; env.remoteOk: getDoc resolves
fetchEncryptedBlob(sy, rem, env) ==
    LET init == tryInitDb(sy, env)
    IN  IF ~init.db \/ ~init.sync.authClient \/ init.sync.user = "none"
        THEN [result |-> Ok(<<>>), sync |-> init.sync]
        ELSE IF ~env.remoteOk
        THEN [result |-> Ok(<<>>), sync |-> init.sync]
        ELSE [result |-> Ok(rem[userPathDoc(init.db, init.sync.user)]),
              sync |-> init.sync]

\* uploadEncryptedBlob; env.remoteOk: setDoc resolves
uploadEncryptedBlob(sy, rem, encryptedJson, env) ==
    LET called == [sy EXCEPT !.uploaded = <<encryptedJson>>]
        init == tryInitDb(called, env)
    IN  IF ~init.db \/ ~init.sync.authClient \/ init.sync.user = "none"
        THEN [result |-> Ok(FALSE), sync |-> init.sync, remote |-> rem]
        ELSE IF ~env.remoteOk
        THEN [result |-> Ok(FALSE), sync |-> init.sync, remote |-> rem]
        ELSE [result |-> Ok(TRUE), sync |-> init.sync,
              remote |-> [rem EXCEPT
                            ![userPathDoc(init.db, init.sync.user)] =
                                <<encryptedJson>>]]

(***************************************************************************)
(* A session of the IndexedDB-backed App next to the Sync Client           *)
(* (specification SpecSync): the calls of cloud-sync.ts in any order, and  *)
(* the Create button as the save of the App.                               *)
(***************************************************************************)
SyncUsers == {"userA", "userB"}
\* the answers of Firebase a call can meet
RemoteEnvs ==
    [firestoreOk : BOOLEAN, authOk : BOOLEAN, remoteOk : BOOLEAN,
     cred : {"wrong"}]
SignInEnvs ==
    [firestoreOk : BOOLEAN, authOk : BOOLEAN, remoteOk : {TRUE},
     cred : SyncUsers \cup {"wrong"}]
SignOutEnvs ==
    [firestoreOk : {TRUE}, authOk : {TRUE}, remoteOk : BOOLEAN,
     cred : {"wrong"}]
\* a call that asks Firebase nothing that can fail
NoEnv == [firestoreOk |-> TRUE, authOk |-> TRUE, remoteOk |-> TRUE,
          cred |-> "wrong"]

\* blobs: one uploaded in an earlier session, one the session uploads
OldBlob == encryptJSON(EmptyDB, "hunter2", Constant(SaltLen, 200),
                       Constant(IvLen, 255))
NewBlob == encryptJSON(EmptyDB, "abc123", Constant(SaltLen, 7),
                       Constant(IvLen, 3))

\* what getRandomValues returns to the save of the session
SyncRandom == [salt |-> Constant(SaltLen, 200), iv |-> Constant(IvLen, 255)]

SyncOps == {"signIn", "signOut", "onAuthChanged", "fetch", "upload"}

\* the record of a completed call of the Sync Client: value is what it
\* returned or threw ("null", "blob", "true", "false", "undefined", a uid, an
\* error), blob the blob it was given or returned
SyncCall(op, kind, value, env, blob) ==
    [op |-> op, kind |-> kind, value |-> value, env |-> env, blob |-> blob]

InitSync ==
    /\ idb = <<>>
    /\ ls = <<>>
    /\ db = EmptyDB
    /\ passphrase = ""
    /\ unlocked = FALSE
    /\ last = NoCall
    /\ remote \in {NoDocs, [NoDocs EXCEPT !["userB"] = <<OldBlob>>]}
    /\ sync \in {[SyncStart EXCEPT !.cfg = c] : c \in Configs}
    /\ app3 = App3Off
    /\ drawn = 0
    /\ pending = <<>>

SignIn(env) ==
    /\ LET r == signIn(sync, env)
       IN  /\ sync' = r.sync
           /\ last' = SyncCall("signIn", r.result.kind,
                                IF IsOk(r.result) THEN r.result.value
                                ELSE r.result.error, env, <<>>)
    /\ UNCHANGED <<idb, ls, db, passphrase, unlocked, remote, app3, drawn, pending>>

SignOut(env) ==
    /\ LET r == signOut(sync, env)
       IN  /\ sync' = r.sync
           /\ last' = SyncCall("signOut", r.result.kind, r.result.value,
                                env, <<>>)
    /\ UNCHANGED <<idb, ls, db, passphrase, unlocked, remote, app3, drawn, pending>>

OnAuthChanged ==
    /\ ~sync.asked
    /\ LET r == onAuthChanged(sync)
       IN  /\ sync' = r.sync
           /\ last' = SyncCall("onAuthChanged", r.result.kind,
                                r.result.value, NoEnv, <<>>)
    /\ UNCHANGED <<idb, ls, db, passphrase, unlocked, remote, app3, drawn, pending>>

Fetch(env) ==
    /\ LET r == fetchEncryptedBlob(sync, remote, env)
       IN  /\ sync' = r.sync
           /\ last' = IF ~IsOk(r.result)
                       THEN SyncCall("fetch", "error", r.result.error, env,
                                     <<>>)
                       ELSE SyncCall("fetch", "ok",
                                     IF r.result.value = <<>> THEN "null"
                                     ELSE "blob", env, r.result.value)
    /\ UNCHANGED <<idb, ls, db, passphrase, unlocked, remote, app3, drawn, pending>>

Upload(encryptedJson, env) ==
    /\ LET r == uploadEncryptedBlob(sync, remote, encryptedJson, env)
       IN  /\ sync' = r.sync
           /\ remote' = r.remote
           /\ last' = SyncCall("upload", r.result.kind,
                                IF r.result.value THEN "true" ELSE "false",
                                env, <<encryptedJson>>)
    /\ UNCHANGED <<idb, ls, db, passphrase, unlocked, app3, drawn, pending>>

NextSync ==
    \/ \E env \in SignInEnvs : SignIn(env)
    \/ \E env \in SignOutEnvs : SignOut(env)
    \/ OnAuthChanged
    \/ \E env \in RemoteEnvs : Fetch(env)
    \/ \E env \in RemoteEnvs : Upload(NewBlob, env)
    \/ \E env \in IdSaveEnvs : Create("abc123", SyncRandom, env)

SpecSync == InitSync /\ [][NextSync]_vars

\* C14: whenever a save completes its local write while a remote identity is
\* signed in, uploadEncryptedBlob is called as well, with the blob that was
\* written.
SaveAlsoUploadsBlob ==
    [][(last'.op \in SaveOps /\ last'.kind = "ok" /\ sync.user # "none") =>
          sync'.uploaded = (IF idb' # idb THEN idb' ELSE ls')]_vars

\* C15: when the remote configuration is missing or empty, nobody is signed
\* in, or the remote call fails, fetchEncryptedBlob returns null and
\* uploadEncryptedBlob returns false; neither call throws; an upload without
\* configuration or identity writes nothing to the remote store.
RemoteAbsenceIsTransparent ==
    [][(last'.op \in {"fetch", "upload"}) =>
          /\ last'.kind = "ok"
          /\ (sync.cfg # "valid" \/ sync.user = "none"
                \/ ~last'.env.remoteOk) =>
                /\ last'.op = "fetch" => last'.value = "null"
                /\ last'.op = "upload" => last'.value = "false"
          /\ (sync.cfg # "valid" \/ sync.user = "none") =>
                remote' = remote]_vars

\* an upload of a signed-in user has failed at the remote call
UploadFailedAtRemote ==
    /\ last.op = "upload"
    /\ last.kind = "ok"
    /\ last.value = "false"
    /\ ~last.env.remoteOk
    /\ sync.cfg = "valid"
    /\ sync.authClient
    /\ sync.user # "none"

\* C16: no operation of the Sync Client (signIn, signOut, onAuthChanged,
\* fetchEncryptedBlob, uploadEncryptedBlob) throws to its caller, whatever
\* fails.
SyncClientNeverThrows == (last.op \in SyncOps) => last.kind = "ok"

\* C17: after a call onAuthChanged(cb), every later change of the
\* authenticated identity calls cb with the new uid, or with null: cb has
\* been told the identity that is current.
ObserverToldEveryChange == (sync.asked /\ sync.moved) => sync.told = sync.user

\* C18: an upload writes only the document of the identity signed in at the
\* call, and puts the blob there when it succeeds; a fetch changes nothing
\* and returns the blob of the document of the identity signed in at the
\* call, never another one.
OnlyOwnDocumentAddressed ==
    [][/\ (last'.op = "upload") =>
             /\ \A u \in Uids : u # sync.user => remote'[u] = remote[u]
             /\ last'.value = "true" => remote'[sync.user] = last'.blob
       /\ (last'.op = "fetch") =>
             /\ remote' = remote
             /\ last'.value = "blob" => last'.blob = remote[sync.user]
             /\ (sync'.dbClient /\ sync'.authClient /\ sync.user # "none"
                   /\ last'.env.remoteOk) =>
                   last'.blob = remote[sync.user]]_vars

\* userA has fetched the blob userA uploaded while the document of userB
\* holds another blob
OwnBlobFetched ==
    /\ last.op = "fetch"
    /\ last.blob = <<NewBlob>>
    /\ sync.user = "userA"
    /\ remote["userA"] = <<NewBlob>>
    /\ remote["userB"] = <<OldBlob>>

(***************************************************************************)
(* The Firestore-backed App (src/unnamed/part_003).  Its database is the   *)
(* React state db; a student is [id, name, classSection, dateOfBirth,      *)
(* contact, guardian1Name], a log [id, type, studentId, guardian]; an id   *)
(* "TATB-<now>" or "log_<now>" is <<now>>, an id "TATB-<now>-<r>" is       *)
(* <<now, r>>.  The string JSON.stringify(db) is [text |-> its text].      *)
(***************************************************************************)
MaxStudents3 == 1   \* students of the Firestore-backed App
MaxLogs3 == 2       \* log entries of the Firestore-backed App

StudentFields3 == 5

IdText3(id) == <<Len(id)>> \o id
StudentText3(st) ==
    IdText3(st.id)
    \o <<StrCode(st.name), StrCode(st.classSection), StrCode(st.dateOfBirth),
         StrCode(st.contact), StrCode(st.guardian1Name)>>
LogText3(l) ==
    IdText3(l.id) \o <<StrCode(l.type), StrCode(l.guardian)>>
    \o IdText3(l.studentId)

\* JSON.stringify(db)
JSONStringify3(obj) ==
    [text |-> <<Len(obj.students)>>
              \o Flatten([i \in 1..Len(obj.students) |->
                             StudentText3(obj.students[i])])
              \o <<Len(obj.logs)>>
              \o Flatten([i \in 1..Len(obj.logs) |-> LogText3(obj.logs[i])])]

ParseId3(t, pos) ==
    IF pos > Len(t) THEN ParseFail
    ELSE IF pos + t[pos] > Len(t) THEN ParseFail
    ELSE [ok |-> TRUE, val |-> SubSeq(t, pos + 1, pos + t[pos]),
          next |-> pos + t[pos] + 1]

ParseStudent3(t, pos) ==
    LET id == ParseId3(t, pos)
    IN  IF ~id.ok THEN ParseFail
        ELSE IF id.next + StudentFields3 - 1 > Len(t) THEN ParseFail
        ELSE IF \E k \in 0..(StudentFields3 - 1) : ~IsStr(t[id.next + k])
        THEN ParseFail
        ELSE [ok |-> TRUE,
              val |-> [id |-> id.val, name |-> Strings[t[id.next]],
                       classSection |-> Strings[t[id.next + 1]],
                       dateOfBirth |-> Strings[t[id.next + 2]],
                       contact |-> Strings[t[id.next + 3]],
                       guardian1Name |-> Strings[t[id.next + 4]]],
              next |-> id.next + StudentFields3]

ParseLog3(t, pos) ==
    LET id == ParseId3(t, pos)
    IN  IF ~id.ok THEN ParseFail
        ELSE IF id.next + 1 > Len(t) THEN ParseFail
        ELSE IF ~(IsStr(t[id.next]) /\ IsStr(t[id.next + 1])) THEN ParseFail
        ELSE LET sid == ParseId3(t, id.next + 2)
             IN  IF ~sid.ok THEN ParseFail
                 ELSE [ok |-> TRUE,
                       val |-> [id |-> id.val, type |-> Strings[t[id.next]],
                                guardian |-> Strings[t[id.next + 1]],
                                studentId |-> sid.val],
                       next |-> sid.next]

RECURSIVE ParseStudents3(_, _, _)
ParseStudents3(t, pos, n) ==
    IF n = 0 THEN [ok |-> TRUE, val |-> <<>>, next |-> pos]
    ELSE LET st == ParseStudent3(t, pos)
         IN  IF ~st.ok THEN ParseFail
             ELSE LET rest == ParseStudents3(t, st.next, n - 1)
                  IN  IF ~rest.ok THEN ParseFail
                      ELSE [ok |-> TRUE, val |-> <<st.val>> \o rest.val,
                            next |-> rest.next]

RECURSIVE ParseLogs3(_, _, _)
ParseLogs3(t, pos, n) ==
    IF n = 0 THEN [ok |-> TRUE, val |-> <<>>, next |-> pos]
    ELSE LET l == ParseLog3(t, pos)
         IN  IF ~l.ok THEN ParseFail
             ELSE LET rest == ParseLogs3(t, l.next, n - 1)
                  IN  IF ~rest.ok THEN ParseFail
                      ELSE [ok |-> TRUE, val |-> <<l.val>> \o rest.val,
                            next |-> rest.next]

\* JSON.parse(data.blob), the blob a string JSON.stringify(db) may have made
JSONParse3(blob) ==
    LET t == blob.text
    IN  IF Len(t) = 0 THEN Err(SyntaxError)
        ELSE LET ss == ParseStudents3(t, 2, t[1])
             IN  IF ~ss.ok \/ ss.next > Len(t) THEN Err(SyntaxError)
                 ELSE LET ll == ParseLogs3(t, ss.next + 1, t[ss.next])
                      IN  IF ~ll.ok \/ ll.next # Len(t) + 1
                          THEN Err(SyntaxError)
                          ELSE Ok([students |-> ss.val, logs |-> ll.val])

(***************************************************************************)
(* The Firestore-backed App at work.  app3 holds its React state next to   *)
(* db: firestoreReady; load, how far loadFromFirestore has come ("sent":   *)
(* getDoc is in flight, "served": Firestore has answered, "done"); snap,   *)
(* the answer ("exists" with snapBlob, "absent", "error"); rules, whether  *)
(* the Firestore project lets this client read and write the document (a   *)
(* refused getDoc or setDoc rejects).  The effect on [db] runs after every *)
(* setDb, so every handler that calls setDb includes uploadToFirestore.    *)
(* checkedIn, checkedOut and checkoutStatus are the ids whose entry in the *)
(* map of that name is true; selectedGuardian is the set of its pairs      *)
(* <<id, value>>.                                                          *)
(***************************************************************************)
\* readings of Date.now() in this session; the stored document is older
Times3 == {1}

Rules3 == [read : {"ok", "error"}, write : {"ok", "error"}]
Call3(op) == [op |-> op]

App3Start(ready, rules) ==
    [running |-> TRUE, firestoreReady |-> ready,
     load |-> IF ready THEN "sent" ELSE "done",
     snap |-> "none", snapBlob |-> <<>>, rules |-> rules,
     checkedIn |-> {}, checkedOut |-> {}, checkoutStatus |-> {},
     selectedGuardian |-> {}]

\* what the document users/testuser_shared/ttb_sync/main may hold at mount
StoredDb3 ==
    [students |-> <<[id |-> <<0>>, name |-> "Raju",
                     classSection |-> "Pravalam",
                     dateOfBirth |-> "2015-06-01", contact |-> "555-0100",
                     guardian1Name |-> "Lakshmi"]>>,
     logs |-> <<[id |-> <<0>>, type |-> "checkin", guardian |-> "",
                 studentId |-> <<0>>]>>]
StoredBlobs3 ==
    {<<>>, <<JSONStringify3(StoredDb3)>>, <<[text |-> <<>>]>>,
     <<[text |-> <<1, 1>>]>>}

\* uploadToFirestore, the effect on [db]
uploadToFirestore(rem, ready, newDb, rules) ==
    IF ready /\ rules.write = "ok"
    THEN [rem EXCEPT ![TEST_UID] = <<JSONStringify3(newDb)>>]
    ELSE rem

\* setDb(newDb) and the effect that follows the render
SetDb3(op, newDb, newApp) ==
    /\ db' = newDb
    /\ app3' = newApp
    /\ remote' = uploadToFirestore(remote, app3.firestoreReady, newDb,
                                   app3.rules)
    /\ last' = Call3(op)
    /\ UNCHANGED <<idb, ls, passphrase, unlocked, sync, drawn, pending>>

\* the mount: useState initial values, then loadFromFirestore up to its await
InitFirestore ==
    /\ idb = <<>>
    /\ ls = <<>>
    /\ db = EmptyDB
    /\ passphrase = ""
    /\ unlocked = FALSE
    /\ last = Call3("mount")
    /\ sync = SyncStart
    /\ drawn = 0
    /\ pending = <<>>
    /\ \E blob \in StoredBlobs3 : remote = [NoDocs EXCEPT ![TEST_UID] = blob]
    /\ \E ready \in BOOLEAN, rules \in Rules3 : app3 = App3Start(ready, rules)

\* Firestore answers getDoc
GetDocServed ==
    /\ app3.running
    /\ app3.load = "sent"
    /\ app3' = [app3 EXCEPT
                  !.load = "served",
                  !.snap = IF app3.rules.read = "error" THEN "error"
                           ELSE IF remote[TEST_UID] = <<>> THEN "absent"
                           ELSE "exists",
                  !.snapBlob = IF app3.rules.read = "error" THEN <<>>
                               ELSE remote[TEST_UID]]
    /\ last' = Call3("getDoc")
    /\ UNCHANGED <<idb, ls, db, passphrase, unlocked, remote, sync, drawn, pending>>

\* the database loadFromFirestore adopts, or <<>> when it adopts none
\* loadFromFirestore that starts from an empty database when it finds none
loadFromFirestoreKeepingNothing(a) ==
    IF a.snap # "exists" THEN <<EmptyDB>>
    ELSE IF Len(a.snapBlob[1].text) = 0 THEN <<>>
    ELSE LET parsed == JSONParse3(a.snapBlob[1])
         IN  IF IsOk(parsed) THEN <<parsed.value>> ELSE <<>>

loadFromFirestore(a) ==
    IF a.snap # "exists" THEN <<>>
    ELSE IF Len(a.snapBlob[1].text) = 0 THEN <<>>
    ELSE LET parsed == JSONParse3(a.snapBlob[1])
         IN  IF IsOk(parsed) THEN <<parsed.value>> ELSE <<>>

\* loadFromFirestore after its await
LoadResolve ==
    /\ app3.running
    /\ app3.load = "served"
    /\ LET adopted == loadFromFirestore(app3)
       IN  IF adopted = <<>>
           THEN UNCHANGED <<db, remote>>
           ELSE /\ db' = adopted[1]
                /\ remote' = uploadToFirestore(remote, app3.firestoreReady,
                                               adopted[1], app3.rules)
    /\ last' = Call3("load")
    /\ app3' = [app3 EXCEPT !.load = "done"]
    /\ UNCHANGED <<idb, ls, passphrase, unlocked, sync, drawn, pending>>

EnrollForms3 ==
    [name : {"", "Asha"}, classSection : {"Pravesham"},
     dateOfBirth : {"2015-06-01"}, contact : {"555-0100"},
     guardian1Name : {""}]
\* str.trim().toUpperCase() of the strings typed into name and contact
TrimToUpperCase(str) ==
    CASE str \in {"Asha", " asha "} -> "ASHA"
      [] str = "Raju" -> "RAJU"
      [] str \in {"555-0100", "555-0100 "} -> "555-0100"
      [] OTHER -> str

\* the comparison without trim() and toUpperCase()
SameStudent3Exact(stu, s) ==
    /\ stu.name = s.name
    /\ stu.dateOfBirth = s.dateOfBirth
    /\ stu.contact = s.contact

SameStudent3(stu, s) ==
    /\ TrimToUpperCase(stu.name) = TrimToUpperCase(s.name)
    /\ stu.dateOfBirth = s.dateOfBirth
    /\ TrimToUpperCase(stu.contact) = TrimToUpperCase(s.contact)
Students3(d) == {d.students[i] : i \in 1..Len(d.students)}

\* the enrollment form's onSubmit
Enroll3(form, now) ==
    /\ app3.running
    /\ form.name # ""
    /\ ~\E s \in Students3(db) : SameStudent3(s, form)
    /\ SetDb3("enroll",
              [db EXCEPT !.students =
                  @ \o <<[id |-> <<now>>, name |-> form.name,
                          classSection |-> form.classSection,
                          dateOfBirth |-> form.dateOfBirth,
                          contact |-> form.contact,
                          guardian1Name |-> form.guardian1Name]>>],
              app3)

\* the rows of a .csv or .xlsx file
RowAsha ==
    [name |-> "Asha", classSection |-> "Pravesham",
     dateOfBirth |-> "2015-06-01", contact |-> "555-0100",
     guardian1Name |-> ""]
RowRaju == [RowAsha EXCEPT !.name = "Raju", !.contact = ""]
BulkFiles == {<<RowRaju, RowRaju>>,
              <<[RowAsha EXCEPT !.dateOfBirth = ""], RowRaju>>}
BulkRandoms == {7}

RECURSIVE BulkPush(_, _, _, _)
BulkPush(studentsArr, filtered, now, rs) ==
    IF Len(filtered) = 0 THEN studentsArr
    ELSE LET s == filtered[1]
             exists == \E i \in 1..Len(studentsArr) :
                          SameStudent3(studentsArr[i], s)
             pushed == [id |-> <<now, rs[1]>>, name |-> s.name,
                        classSection |-> s.classSection,
                        dateOfBirth |-> s.dateOfBirth,
                        contact |-> s.contact,
                        guardian1Name |-> s.guardian1Name]
         IN  BulkPush(IF exists THEN studentsArr
                      ELSE studentsArr \o <<pushed>>,
                      Tail(filtered), now, Tail(rs))

\* the students after setDb's updater has gone through the file's rows
BulkAdd(studentsArr, file, now, rs) ==
    BulkPush(studentsArr,
             SelectSeq(file, LAMBDA s : /\ s.name # ""
                                        /\ s.dateOfBirth # ""
                                        /\ s.classSection # ""),
             now, rs)

handleBulkUpload(file, now, rs) ==
    /\ app3.running
    /\ SetDb3("bulk", [db EXCEPT !.students = BulkAdd(@, file, now, rs)],
              app3)

EditForms3 == [name : {"Raju"}, guardian1Name : {"Lakshmi"}]

\* UpdateStudentPage.handleSave with a student selected
handleSave(selected, editForm) ==
    /\ app3.running
    /\ SetDb3("update",
              [db EXCEPT !.students =
                  [i \in 1..Len(@) |->
                      IF @[i].id = selected.id
                      THEN [@[i] EXCEPT
                              !.guardian1Name = editForm.guardian1Name,
                              !.classSection = selected.classSection,
                              !.dateOfBirth = selected.dateOfBirth,
                              !.contact = selected.contact,
                              !.name = selected.name]
                      ELSE @[i]]],
              app3)

\* UpdateStudentPage.handleDelete with a student selected
handleDelete(selected) ==
    /\ app3.running
    /\ SetDb3("delete",
              [db EXCEPT !.students =
                  SelectSeq(@, LAMBDA s : s.id # selected.id)],
              app3)

\* selectedGuardian[id] || ''
SelectedGuardianOf(a, id) ==
    IF \E p \in a.selectedGuardian : p[1] = id
    THEN (CHOOSE p \in a.selectedGuardian : p[1] = id)[2]
    ELSE ""

\* the radio buttons of a student in the checkout view
guardianOptions(student) ==
    IF student.guardian1Name # "" THEN {student.guardian1Name} ELSE {}

\* a radio button's onChange
SelectGuardianClick(student, value) ==
    /\ app3.running
    /\ student.id \in app3.checkedIn
    /\ student.id \notin app3.checkoutStatus
    /\ value \in guardianOptions(student)
    /\ app3' = [app3 EXCEPT !.selectedGuardian =
                   {p \in @ : p[1] # student.id} \cup {<<student.id, value>>}]
    /\ last' = Call3("guardian")
    /\ UNCHANGED <<idb, ls, db, passphrase, unlocked, remote, sync, drawn, pending>>

\* handleCheckin: the flags and the database after it
handleCheckin(a, d, student, now) ==
    [app |-> [a EXCEPT !.checkedIn = @ \cup {student.id},
                       !.checkedOut = @ \ {student.id}],
     db |-> [d EXCEPT !.logs =
                @ \o <<[id |-> <<now>>, type |-> "checkin",
                        guardian |-> "", studentId |-> student.id]>>]]

\* handleCheckout: the flags and the database after it
handleCheckout(a, d, student, now) ==
    [app |-> [a EXCEPT !.checkedOut = @ \cup {student.id},
                       !.checkedIn = @ \ {student.id}],
     db |-> [d EXCEPT !.logs =
                @ \o <<[id |-> <<now>>, type |-> "checkout",
                        guardian |-> SelectedGuardianOf(a, student.id),
                        studentId |-> student.id]>>]]

\* the Check In button of a student in the checkin view
CheckInClick(student, now) ==
    /\ app3.running
    /\ student.id \notin app3.checkedIn
    /\ LET r == handleCheckin(app3, db, student, now)
       IN  SetDb3("checkin", r.db, r.app)

\* the Check Out button of a student in the checkout view
CheckOutClick(student, now) ==
    /\ app3.running
    /\ student.id \in app3.checkedIn
    /\ student.id \notin app3.checkoutStatus
    /\ LET r == handleCheckout(app3, db, student, now)
       IN  SetDb3("checkout", r.db,
                  [r.app EXCEPT !.checkoutStatus = @ \cup {student.id}])

\* the Firestore-backed App from its mount on
NextFirestore ==
    \/ GetDocServed
    \/ LoadResolve
    \/ \E form \in EnrollForms3, now \in Times3 :
          /\ Len(db.students) < MaxStudents3
          /\ Enroll3(form, now)
    \/ \E file \in BulkFiles, now \in Times3, r \in BulkRandoms :
          /\ app3.running
          /\ Len(BulkAdd(db.students, file, now, [i \in 1..Len(file) |-> r]))
                 <= MaxStudents3
          /\ handleBulkUpload(file, now, [i \in 1..Len(file) |-> r])
    \/ \E s \in Students3(db), f \in EditForms3 :
          handleSave(s, f)
    \/ \E s \in Students3(db) : handleDelete(s)
    \/ \E s \in Students3(db), now \in Times3 :
          /\ Len(db.logs) < MaxLogs3
          /\ CheckInClick(s, now)
    \/ \E s \in Students3(db), now \in Times3 :
          /\ Len(db.logs) < MaxLogs3
          /\ CheckOutClick(s, now)
    \/ \E s \in Students3(db) :
          /\ app3.running
          /\ \E value \in guardianOptions(s) : SelectGuardianClick(s, value)

SpecFirestore == InitFirestore /\ [][NextFirestore]_vars

(***************************************************************************)
(* C13: only ciphertext crosses a boundary.                                *)
(***************************************************************************)
\* the object of an encrypted blob: salt, iv and cipher and nothing else
IsEncryptedBlob(v) == DOMAIN v = {"salt", "iv", "cipher"}
WritesOnlyBlobs(before, after) ==
    after # before /\ after # <<>> => IsEncryptedBlob(after[1])

\* C13: every value written to the IndexedDB slot or to the localStorage
\* slot, and every value sent to a Firestore document, is an encrypted blob
\* {salt, iv, cipher}; the serialized database itself is never written or
\* uploaded.
OnlyCiphertextCrossesBoundary ==
    [][/\ WritesOnlyBlobs(idb, idb')
       /\ WritesOnlyBlobs(ls, ls')
       /\ \A u \in Uids : WritesOnlyBlobs(remote[u], remote'[u])]_vars

(***************************************************************************)
(* C19: initial hydration from the remote.                                 *)
(***************************************************************************)
\* the step in which loadFromFirestore goes on after await getDoc
LoadStep == app3.load = "served" /\ app3'.load = "done"
\* getDoc answered with a document whose blob JSON.parse accepts
FetchedAndDecoded ==
    /\ app3.snap = "exists"
    /\ Len(app3.snapBlob[1].text) > 0
    /\ IsOk(JSONParse3(app3.snapBlob[1]))

\* C19: when the load started at the mount finishes, a blob that was fetched
\* and decoded replaces the database in memory, empty or not; when the fetch
\* failed, found no blob or the blob did not decode, the database is left as
\* it was; the steps of the load change the database in no other way.
HydrationFromRemote ==
    [][/\ LoadStep /\ FetchedAndDecoded
            => db' = JSONParse3(app3.snapBlob[1]).value
       /\ LoadStep /\ ~FetchedAndDecoded => db' = db
       /\ last'.op \in {"load", "getDoc"} /\ db' # db
            => LoadStep /\ FetchedAndDecoded]_vars

\* the load finished and the stored database is the one in memory
HydratedFromRemote ==
    /\ last.op = "load"
    /\ app3.snap = "exists"
    /\ db = StoredDb3

(***************************************************************************)
(* Check-in and check-out of the IndexedDB-backed App, and the user's      *)
(* operations of both Apps side by side.                                   *)
(***************************************************************************)
MaxLogs == 2   \* log entries of the IndexedDB-backed App

GuardianKeys == {"", "father", "guardian2"}
LogForms ==
    [name : {"Asha", "Raju"}, classSection : {"Pravesham"},
     fatherName : {""}]

\* handleCheckIn that starts the list of logs anew
handleCheckInReplacingLogs(student, rnd, env) ==
    /\ unlocked
    /\ SaveNew("checkin",
               [db EXCEPT !.logs = <<MkLog(student, "checkin", "")>>],
               rnd, env)

handleCheckIn(student, rnd, env) ==
    /\ unlocked
    /\ SaveNew("checkin",
               [db EXCEPT !.logs = <<MkLog(student, "checkin", "")>> \o @],
               rnd, env)

handleCheckOut(student, guardianKey, rnd, env) ==
    /\ unlocked
    /\ guardianKey # ""
    /\ LET guardianName == IF guardianKey = "father" THEN student.fatherName
                           ELSE ""
           collectedBy == IF guardianName # "" THEN guardianName
                          ELSE guardianKey
       IN  SaveNew("checkout",
                   [db EXCEPT !.logs =
                       <<MkLog(student, "checkout", collectedBy)>> \o @],
                   rnd, env)

\* either App in front of its user: the IndexedDB-backed one unlocked with
\* an empty database, or the Firestore-backed one just mounted
InitLogs ==
    \/ /\ db = EmptyDB
       /\ passphrase = "abc123"
       /\ unlocked = TRUE
       /\ idb = <<encryptJSON(EmptyDB, passphrase, IdRandom.salt,
                              IdRandom.iv)>>
       /\ ls = <<>>
       /\ last = NoCall
       /\ InitCloud
    \/ InitFirestore

NextLogs ==
    \/ \E form \in LogForms, year \in Years, env \in IdSaveEnvs :
          /\ unlocked
          /\ Len(db.students) < MaxStudents
          /\ NextSeqNo(form, year) <= MaxSeqNo
          /\ handleAddStudent(form, year, IdRandom, env)
    \/ \E s \in StudentsOf(db), env \in IdSaveEnvs :
          handleDeleteStudent(s.id, IdRandom, env)
    \/ \E env \in IdSaveEnvs : handleClearAllEnrollments(IdRandom, env)
    \/ \E s \in StudentsOf(db), env \in IdSaveEnvs :
          /\ Len(db.logs) < MaxLogs
          /\ handleCheckIn(s, IdRandom, env)
    \/ \E s \in StudentsOf(db), g \in GuardianKeys, env \in IdSaveEnvs :
          /\ Len(db.logs) < MaxLogs
          /\ handleCheckOut(s, g, IdRandom, env)
    \/ NextFirestore

SpecLogs == InitLogs /\ [][NextLogs]_vars

(***************************************************************************)
(* C20: logs are append-only.                                              *)
(***************************************************************************)
LoggingOps == {"checkin", "checkout"}
OtherUserOps == {"enroll", "bulk", "update", "delete", "clear"}
\* every entry of old is in new, unchanged and in its order, after k new ones
\* in front or before k new ones at the end
KeptWith(old, new, k) ==
    /\ Len(new) = Len(old) + k
    /\ \/ SubSeq(new, k + 1, Len(new)) = old
       \/ SubSeq(new, 1, Len(old)) = old

\* C20: check-in and check-out leave every log entry in place and unchanged
\* and add exactly one entry; enroll, bulk import, update student, delete
\* student and clear all enrollments leave the logs exactly as they were.
LogsAppendOnly ==
    [][/\ last'.op \in LoggingOps => KeptWith(db.logs, db'.logs, 1)
       /\ last'.op \in OtherUserOps => db'.logs = db.logs]_vars

\* a student was deleted or the enrollments cleared after a check-in and a
\* check-out had been logged
LogsKeptAfterDelete ==
    /\ last.op \in {"delete", "clear"}
    /\ Len(db.logs) >= 2
    /\ \E i, j \in 1..Len(db.logs) :
          db.logs[i].type = "checkin" /\ db.logs[j].type = "checkout"

(***************************************************************************)
(* C21: de-duplication on enrollment (Firestore-backed App).  The forms    *)
(* and files here spell one student in several ways.                       *)
(***************************************************************************)
MaxEnrolled == 2   \* students of the Firestore-backed App (SpecEnroll)

EnrollForms21 ==
    [name : {"", "Asha", " asha ", "Raju"}, classSection : {"Pravesham"},
     dateOfBirth : {"2015-06-01"}, contact : {"555-0100", "555-0100 "},
     guardian1Name : {""}]
BulkFiles21 ==
    {<<RowAsha, [RowAsha EXCEPT !.name = " asha "]>>,
     <<[RowRaju EXCEPT !.contact = "555-0100 "], RowAsha>>}

NextEnroll ==
    \/ GetDocServed
    \/ LoadResolve
    \/ \E form \in EnrollForms21, now \in Times3 :
          /\ Len(db.students) < MaxEnrolled
          /\ Enroll3(form, now)
    \/ \E file \in BulkFiles21, now \in Times3, r \in BulkRandoms :
          /\ Len(BulkAdd(db.students, file, now, [i \in 1..Len(file) |-> r]))
                 <= MaxEnrolled
          /\ handleBulkUpload(file, now, [i \in 1..Len(file) |-> r])

SpecEnroll == InitFirestore /\ [][NextEnroll]_vars

\* name, date of birth and contact of a student, name and contact trimmed
\* and in upper case
Triple(st) ==
    <<TrimToUpperCase(st.name), st.dateOfBirth, TrimToUpperCase(st.contact)>>

\* C21: after any sequence of single enrollments and bulk imports no two
\* students have the same triple (name, date of birth, contact), name and
\* contact compared trimmed and without regard to case; a candidate whose
\* triple an existing student has is not inserted.
NoDuplicateTriples ==
    \A i, j \in 1..Len(db.students) :
        i # j => Triple(db.students[i]) # Triple(db.students[j])

\* two students are enrolled and a form that spells one of them differently
\* is at hand
DuplicateCandidateAtHand ==
    /\ last.op \in {"enroll", "bulk"}
    /\ Len(db.students) = 2
    /\ \E form \in EnrollForms21 :
          /\ \A st \in Students3(db) : st.name # form.name
          /\ \E st \in Students3(db) : Triple(st) = Triple(form)

(***************************************************************************)
(* C22: checkout records the collector.                                    *)
(***************************************************************************)
\* the collector a log entry names: collectedBy in the IndexedDB-backed App,
\* guardian in the Firestore-backed App
CollectorOf(l) ==
    IF "guardian" \in DOMAIN l THEN l.guardian ELSE l.collectedBy

\* C22: every log entry of type checkout carries the non-empty name of the
\* guardian who collected the student; a checkout without a selected guardian
\* appends no entry.
CheckoutCarriesCollector ==
    \A i \in 1..Len(db.logs) :
        db.logs[i].type = "checkout" => CollectorOf(db.logs[i]) # ""

(***************************************************************************)
(* C23: migration is best-effort.                                          *)
(***************************************************************************)
\* C23: when unlock falls back to a legacy blob and the write of that blob
\* to the primary slot fails, unlock with the correct passphrase still
\* returns the legacy data and both slots are left as they were; unlock
\* empties the legacy slot only when the primary slot has received its blob
\* and never writes anything else to it.
MigrationIsBestEffort ==
    [][/\ (/\ last'.op = "unlock"
           /\ ~(last'.env.idbGetOk /\ idb # <<>>)
           /\ ls # <<>>
           /\ ~last'.env.idbPutOk
           /\ IsOk(decryptJSON(ls[1], passphrase))) =>
             /\ last'.kind = "ok"
             /\ unlocked'
             /\ db' = decryptJSON(ls[1], passphrase).value
             /\ ls' = ls
             /\ idb' = idb
       /\ last'.op = "unlock" =>
             /\ ls' \in {ls, <<>>}
             /\ ls' # ls => idb' = ls]_vars

\* unlock returned a legacy blob's student although the migration failed
UnlockedWithoutMigration ==
    /\ last.op = "unlock"
    /\ last.path = "legacy"
    /\ ~last.env.idbPutOk
    /\ last.kind = "ok"
    /\ unlocked
    /\ Len(db.students) > 0
    /\ ls # <<>>

(***************************************************************************)
(* C28: empty means empty.                                                 *)
(***************************************************************************)
\* C28: unlock returns the empty database for want of a blob only when the
\* primary slot and the legacy slot both hold none; a failed read of a
\* primary slot that holds data never ends in an empty, unlocked database.
EmptyMeansEmpty ==
    [][(/\ last'.op = "unlock"
        /\ last'.kind = "ok"
        /\ last'.path = "empty") => idb = <<>> /\ ls = <<>>]_vars

(***************************************************************************)
(* C29: Create does not destroy data.                                      *)
(***************************************************************************)
\* C29: the Create button of the lock screen never replaces a blob that the
\* primary slot or the legacy slot already holds.
CreateKeepsExistingBlobs ==
    [][last'.op = "create" =>
          /\ idb # <<>> => idb' = idb
          /\ ls # <<>> => ls' = ls]_vars

(***************************************************************************)
(* C27: identifiers are never reassigned.                                  *)
(***************************************************************************)
\* C27: an identifier once given to a student is never given to a student
\* enrolled later: the student an enrollment adds never receives an
\* identifier that log entries written before already refer to.
EnrolledIdIsUnusedInLogs ==
    [][(last'.op = "enroll" /\ unlocked) =>
          \A i \in 1..Len(db.logs) :
              db.logs[i].studentId # db'.students[1].id]_vars

(***************************************************************************)
(* The attendance views of the Firestore-backed App: enrollment, the load  *)
(* from Firestore and the clicks in the checkin and checkout views.        *)
(***************************************************************************)
MaxClicks == 3   \* clicks on Check In and Check Out (SpecAttend)

NextAttend ==
    \/ GetDocServed
    \/ LoadResolve
    \/ \E form \in EnrollForms3, now \in Times3 :
          /\ Len(db.students) < MaxStudents3
          /\ Enroll3(form, now)
    \/ \E s \in Students3(db), now \in Times3 :
          /\ Len(db.logs) < MaxClicks
          /\ CheckInClick(s, now)
    \/ \E s \in Students3(db), now \in Times3 :
          /\ Len(db.logs) < MaxClicks
          /\ CheckOutClick(s, now)
    \/ \E s \in Students3(db) :
          \E value \in guardianOptions(s) : SelectGuardianClick(s, value)

SpecAttend == InitFirestore /\ [][NextAttend]_vars

(***************************************************************************)
(* C26: checked-in students can always be checked out.                     *)
(***************************************************************************)
\* the checkout view lists the student
InCheckoutView(student) == student.id \in app3.checkedIn
\* the Check Out button of the student's card is disabled
isCheckedOut(student) == student.id \in app3.checkoutStatus

\* C26: every student whose checkedIn flag is true is shown in the checkout
\* view with an enabled Check Out button, also after a check-in, a check-out
\* and another check-in.
CheckedInCanCheckOut ==
    \A s \in Students3(db) :
        s.id \in app3.checkedIn => InCheckoutView(s) /\ ~isCheckedOut(s)

(***************************************************************************)
(* C30: alternating attendance log.                                        *)
(***************************************************************************)
\* the entries of the log that refer to the identifier and were appended
\* since the mount, in the order of the log
SessionLogsOf(id) ==
    SelectSeq(db.logs,
              LAMBDA l : /\ l.studentId = id
                         /\ \A k \in 1..Len(StoredDb3.logs) :
                               StoredDb3.logs[k] # l)
\* checkin, checkout, checkin, ...
Alternates(entries) ==
    \A k \in 1..Len(entries) :
        entries[k].type = IF k % 2 = 1 THEN "checkin" ELSE "checkout"

\* C30: checkedIn and checkedOut are never both true for a student, and the
\* log entries of each student appended in the session alternate checkin,
\* checkout, checkin, ..., starting with checkin.
AttendanceLogAlternates ==
    /\ app3.running => app3.checkedIn \cap app3.checkedOut = {}
    /\ \A i \in 1..Len(db.logs) :
          Alternates(SessionLogsOf(db.logs[i].studentId))

(***************************************************************************)
(* C25: no upload before hydration (Firestore-backed App).                 *)
(***************************************************************************)
\* loadFromFirestore has run to its end without a rejected getDoc
LoadCompleted(a) == a.load = "done" /\ a.snap \in {"exists", "absent"}

\* C25: the remote document is replaced only when the initial load of that
\* document has completed successfully: no upload before the load has
\* finished, and none after a load that failed.
NoUploadBeforeHydration ==
    [][remote'[TEST_UID] # remote[TEST_UID] => LoadCompleted(app3')]_vars

(***************************************************************************)
(* Overlapping saves of the IndexedDB-backed App.  A handler runs up to    *)
(* the first await inside saveDB and returns to the event loop; the rest   *)
(* of saveDB (the encryption has finished, the blob is put) runs later, in *)
(* any order among the calls in flight.  Every tier works here.            *)
(***************************************************************************)
MaxInFlight == 2   \* saveDB calls in flight at once

OverlapEnv == [cryptoOk |-> TRUE, idbPutOk |-> TRUE, lsSet |-> "ok"]
WithoutIndex(seq, i) == SubSeq(seq, 1, i - 1) \o SubSeq(seq, i + 1, Len(seq))

\* setDb(newDb); saveDB(newDb, passphrase) up to its first await
SaveStarts(op, newDb) ==
    /\ unlocked
    /\ db' = newDb
    /\ pending' = Append(pending, newDb)
    /\ last' = [op |-> op]
    /\ UNCHANGED <<idb, ls, passphrase, unlocked, remote, sync, app3, drawn>>

handleAddStudentStarts(form, year) ==
    /\ unlocked
    /\ LET id == generateStudentId(form.classSection, year, db.students)
           newStudent == [id |-> id, name |-> form.name,
                          classSection |-> form.classSection,
                          fatherName |-> form.fatherName]
       IN  SaveStarts("enroll", [db EXCEPT !.students = <<newStudent>> \o @])

handleCheckInStarts(student) ==
    SaveStarts("checkin",
               [db EXCEPT !.logs = <<MkLog(student, "checkin", "")>> \o @])

handleDeleteStudentStarts(id) ==
    SaveStarts("delete",
               [db EXCEPT !.students = SelectSeq(@, LAMBDA s : s.id # id)])

\* a saveDB call in flight goes on after its awaits and returns
saveDBFinishes(i, rnd, env) ==
    /\ i \in 1..Len(pending)
    /\ LET r == saveDB(idb, ls, pending[i], passphrase, rnd, env)
       IN  /\ idb' = r.idb
           /\ ls' = r.ls
    /\ pending' = WithoutIndex(pending, i)
    /\ last' = [op |-> "saved"]
    /\ UNCHANGED <<db, passphrase, unlocked, remote, sync, app3, drawn>>

InitOverlap ==
    /\ db = EmptyDB
    /\ passphrase = "abc123"
    /\ unlocked = TRUE
    /\ idb = <<encryptJSON(EmptyDB, passphrase, IdRandom.salt, IdRandom.iv)>>
    /\ ls = <<>>
    /\ last = NoCall
    /\ InitCloud

NextOverlap ==
    \/ \E form \in LogForms, year \in Years :
          /\ Len(pending) < MaxInFlight
          /\ Len(db.students) < MaxStudents
          /\ NextSeqNo(form, year) <= MaxSeqNo
          /\ handleAddStudentStarts(form, year)
    \/ \E s \in StudentsOf(db) :
          /\ Len(pending) < MaxInFlight
          /\ Len(db.logs) < MaxLogs
          /\ handleCheckInStarts(s)
    \/ \E s \in StudentsOf(db) :
          /\ Len(pending) < MaxInFlight
          /\ handleDeleteStudentStarts(s.id)
    \/ \E i \in 1..Len(pending) : saveDBFinishes(i, IdRandom, OverlapEnv)

SpecOverlap == InitOverlap /\ [][NextOverlap]_vars

(***************************************************************************)
(* C24: overlapping saves.                                                 *)
(***************************************************************************)
\* C24: once every saveDB call in flight has finished, the blob in the
\* primary slot decrypts to the database in memory, whatever the order in
\* which the calls finished.
PersistedIsLatest ==
    pending = <<>> =>
        /\ idb # <<>>
        /\ decryptJSON(idb[1], passphrase) = Ok(db)

====
